---- MODULE Spec2Model ----
(***************************************************************************)
(* Model of packages/core/src/buffer.rs (the piece-tree TextBuffer).       *)
(*                                                                         *)
(* Strings are sequences of characters.  "CR" is U+000D, "LF" is U+000A,   *)
(* "a" is an ASCII letter; every character is one UTF-8 byte.             *)
(* Option<T> is a sequence: None is <<>>, Some(x) is <<x>>.                *)
(* A Vec is a sequence; Rust's 0-based index i is TLA+ index i + 1.        *)
(* The intrusive RBTree is the sequence of its nodes in iteration order.   *)
(* A panic ends the run of the buffer: status becomes "panic" and the      *)
(* state keeps whatever had been written before the panicking statement.   *)
(***************************************************************************)
EXTENDS Integers, Sequences, FiniteSets

\* ------------------------------------------------------------------ bounds
MaxPayloadLen == 1
MaxValueLen == 2
MaxOffset == 2
MaxCount == 1
MaxOps == 2

Char == {"a", "CR", "LF"}

RECURSIVE StringsUpTo(_)
StringsUpTo(n) ==
    IF n = 0 THEN {<<>>}
    ELSE LET shorter == StringsUpTo(n - 1)
         IN  shorter \cup {Append(s, c) : s \in {t \in shorter : Len(t) = n - 1}, c \in Char}

Payloads == StringsUpTo(MaxPayloadLen)
Values == StringsUpTo(MaxValueLen)
Offsets == (0 - 1) .. MaxOffset
Counts == 0 .. MaxCount

\* ------------------------------------------------------------ Option<T>
None == <<>>
Some(x) == <<x>>
IsSome(o) == o # <<>>
Unwrap(o) == o[1]

\* --------------------------------------------- unicode_segmentation + str
\* str::graphemes(true): extended grapheme clusters; CR LF is ONE cluster (GB3).
RECURSIVE Graphemes(_)
Graphemes(s) ==
    IF s = <<>> THEN <<>>
    ELSE IF Len(s) >= 2 /\ s[1] = "CR" /\ s[2] = "LF"
         THEN << <<"CR", "LF">> >> \o Graphemes(SubSeq(s, 3, Len(s)))
         ELSE << <<s[1]>> >> \o Graphemes(Tail(s))

\* Number of UTF-8 bytes of a cluster: one per character, all of Char being ASCII.
GraphemeBytes(g) == Len(g)

\* str::grapheme_indices(true): each cluster with its BYTE offset.
RECURSIVE GraphemeIndicesFrom(_, _)
GraphemeIndicesFrom(gs, byte) ==
    IF gs = <<>> THEN <<>>
    ELSE << [grapheme_index |-> byte, c |-> gs[1]] >>
         \o GraphemeIndicesFrom(Tail(gs), byte + GraphemeBytes(gs[1]))

grapheme_indices(s) == GraphemeIndicesFrom(Graphemes(s), 0)

\* value.graphemes(true).count()
grapheme_count(s) == Len(Graphemes(s))

\* String::push_str applied to the clusters of a grapheme sequence, in order.
RECURSIVE push_all(_, _)
push_all(text, gs) == IF gs = <<>> THEN text ELSE push_all(text \o gs[1], Tail(gs))

CR == <<"CR">>
LF == <<"LF">>

\* ------------------------------------------------------------ BufferCursor
BufferCursor(line, column) == [line |-> line, column |-> column]

\* ------------------------------------------------------------------ Buffer
Buffer(value, line_starts) == [value |-> value, line_starts |-> line_starts]

BufferDefault == Buffer(<<>>, <<>>)

\* Buffer::get_line_starts.  pos is the enumerate index i of the next
\* element; on a lone "\r" the call enumerate.nth(i + 1) consumes i + 2
\* further elements (or the rest of the iterator).
RECURSIVE LineStartsScan(_, _, _)
LineStartsScan(gi, pos, line_starts) ==
    IF pos >= Len(gi) THEN line_starts
    ELSE LET e == gi[pos + 1]
         IN  IF e.c = CR
             THEN LineStartsScan(gi, pos + 1 + (pos + 2), Append(line_starts, e.grapheme_index + 1))
             ELSE IF e.c = LF
             THEN LineStartsScan(gi, pos + 1, Append(line_starts, e.grapheme_index + 1))
             ELSE LineStartsScan(gi, pos + 1, line_starts)

get_line_starts(value) == LineStartsScan(grapheme_indices(value), 0, <<0>>)

\* impl From<&str> for Buffer
BufferFrom(value) == Buffer(value, get_line_starts(value))

\* Vec::get(i as usize): None when i is negative (wraps to a huge usize) or too large.
VecGet(v, i) == IF 0 <= i /\ i < Len(v) THEN Some(v[i + 1]) ELSE None

\* Buffer::offset
offset(buffer, cursor) ==
    LET ls == VecGet(buffer.line_starts, cursor.line)
    IN  (IF IsSome(ls) THEN Unwrap(ls) ELSE 0) + cursor.column

\* Buffer::get_line_feed_count; None models a panic (index out of bounds or
\* usize underflow in `end_offset as usize - 1`).
get_line_feed_count(buffer, start, end) ==
    IF end.column = 0 \/ end.line = Len(buffer.line_starts) - 1
    THEN Some(end.line - start.line)
    ELSE IF ~(0 <= end.line /\ end.line + 1 < Len(buffer.line_starts))
    THEN None
    ELSE LET next_line_start_offset == buffer.line_starts[end.line + 2]
             end_offset == buffer.line_starts[end.line + 1] + end.column
             gs == Graphemes(buffer.value)
         IN  IF next_line_start_offset > end_offset + 1
             THEN Some(end.line - start.line)
             ELSE IF ~(1 <= end_offset /\ end_offset - 1 < Len(gs))
             THEN None
             ELSE IF gs[end_offset] = CR
             THEN Some(end.line - start.line + 1)
             ELSE Some(end.line - start.line)

\* ------------------------------------------------------------ Piece, Node
Piece(buffer_index, start, end, line_feed_count, len) ==
    [buffer_index |-> buffer_index, start |-> start, end |-> end,
     len |-> len, line_feed_count |-> line_feed_count]

\* Node::new; the remaining fields take their Default values.
Node(buffer_index, start, end, len, line_feed_count) ==
    [piece |-> Piece(buffer_index, start, end, line_feed_count, len),
     left_size |-> 0, left_line_feed_count |-> 0, parent_key |-> None]

\* impl From<&Buffer> for Node with the operands of the end column swapped.
NodeFromBuffer_swapped(buffer) ==
    LET grapheme_len == grapheme_count(buffer.value)
        line_starts_len == Len(buffer.line_starts)
        end_line == IF line_starts_len = 0 THEN 0 ELSE line_starts_len - 1
        last == IF line_starts_len = 0 THEN 0 ELSE buffer.line_starts[line_starts_len]
    IN  Node(None, BufferCursor(0, 0), BufferCursor(end_line, last - grapheme_len),
             grapheme_len, line_starts_len - 1)

\* impl From<&Buffer> for Node
NodeFromBuffer(buffer) ==
    LET grapheme_len == grapheme_count(buffer.value)
        line_starts_len == Len(buffer.line_starts)
        end_line == IF line_starts_len = 0 THEN 0 ELSE line_starts_len - 1
        last == IF line_starts_len = 0 THEN 0 ELSE buffer.line_starts[line_starts_len]
    IN  Node(None, BufferCursor(0, 0), BufferCursor(end_line, grapheme_len - last),
             grapheme_len, line_starts_len - 1)

\* Node::total_size, the key of the node in the tree.
total_size(node) == node.left_size + node.piece.len

\* Node::start_with_lf_from_string (the code inspects the LAST cluster).
start_with_lf_from_string(value) ==
    LET gs == Graphemes(value) IN gs # <<>> /\ gs[Len(gs)] = LF

\* Node::end_with_cr_from_string
end_with_cr_from_string(value) ==
    LET gs == Graphemes(value) IN gs # <<>> /\ gs[Len(gs)] = CR

\* Node::start_with_lf
start_with_lf(node, buffer) ==
    IF Len(buffer.line_starts) = 0 THEN FALSE
    ELSE IF node.piece.start.line = Len(buffer.line_starts) - 1 THEN FALSE
    ELSE LET next_line_offset == buffer.line_starts[node.piece.start.line + 2]
             start_offset == buffer.line_starts[node.piece.start.line + 1]
                             + node.piece.start.column
             gs == Graphemes(buffer.value)
         IN  IF next_line_offset > start_offset + 1 THEN FALSE
             ELSE 0 <= start_offset /\ start_offset < Len(gs) /\ gs[start_offset + 1] = LF

\* ---------------------------------------------------------- TextBufferInfo
\* Iterator::count() called through the `&mut` reference: it runs the
\* iterator to its end, so the position left behind is the end.
IterCount(gi, pos) == [count |-> Len(gi) - pos, pos |-> Len(gi)]

LineBreakCountDefault == [cr |-> 0, lf |-> 0, crlf |-> 0]

\* The scanning loop of TextBufferInfo::new_with_meta from enumerate index pos.
RECURSIVE MetaScan(_, _, _)
MetaScan(gi, pos, acc) ==
    IF pos >= Len(gi) THEN acc
    ELSE LET e == gi[pos + 1]
             nth == pos + 1 + (pos + 1)
         IN  IF e.c = CR
             THEN IF nth < Len(gi)
                  THEN IF gi[nth + 1].c = LF
                       THEN MetaScan(gi, nth + 1,
                              [acc EXCEPT !.line_starts = Append(@, gi[nth + 1].grapheme_index),
                                          !.line_break_count.crlf = @ + 1])
                       ELSE MetaScan(gi, nth + 1,
                              [acc EXCEPT !.line_starts = Append(@, e.grapheme_index),
                                          !.line_break_count.cr = @ + 1])
                  ELSE [acc EXCEPT !.line_starts = Append(@, e.grapheme_index),
                                   !.line_break_count.cr = @ + 1]
             ELSE IF e.c = LF
             THEN MetaScan(gi, pos + 1,
                    [acc EXCEPT !.line_starts = Append(@, e.grapheme_index),
                                !.line_break_count.lf = @ + 1])
             ELSE MetaScan(gi, pos + 1,
                    [acc EXCEPT !.is_ascii = @ /\ (\A i \in 1 .. Len(e.c) : e.c[i] \in Char)])

\* new_with_meta, lines 449-465
eol_of(total_eol_count, total_cr_count, default_eol) ==
    IF total_eol_count = 0 /\ default_eol = "LF" THEN "LF"
    ELSE IF total_eol_count = 0 \/ total_cr_count > total_eol_count \div 2 THEN "CRLF"
    ELSE "LF"

meta_of(scan, default_eol) ==
    [info |-> [eol |-> eol_of(scan.line_break_count.cr + scan.line_break_count.lf
                                + scan.line_break_count.crlf,
                              scan.line_break_count.cr + scan.line_break_count.crlf,
                              default_eol),
               eos_normalized |-> FALSE, is_ascii |-> scan.is_ascii],
     line_starts |-> scan.line_starts]

\* TextBufferInfo::new_with_meta -> (info, line_starts): the loop starts
\* where enumerate.count() (line 420) left the iterator.
meta_scanned(gi, grapheme_len, default_eol) ==
    meta_of(MetaScan(gi, grapheme_len.pos,
                     [line_starts |-> <<0>>, line_break_count |-> LineBreakCountDefault,
                      is_ascii |-> TRUE]),
            default_eol)

meta_counted(gi, default_eol) == meta_scanned(gi, IterCount(gi, 0), default_eol)

new_with_meta(value, default_eol) == meta_counted(grapheme_indices(value), default_eol)

\* #[derive(Default)] for TextBufferInfo (EOL::default() is LF).
TextBufferInfoDefault == [eol |-> "LF", eos_normalized |-> FALSE, is_ascii |-> FALSE]

\* TextBufferInfo::should_check_crlf
should_check_crlf(info) == ~(info.eos_normalized /\ info.eol = "LF")

\* ---------------------------------------------------- PieceTreeSearchCache
NodePosition(node, remainder, node_start_offset) ==
    [node |-> node, remainder |-> remainder, node_start_offset |-> node_start_offset]

\* impl Default for PieceTreeSearchCache
PieceTreeSearchCacheDefault == [limit |-> 1, positions |-> <<>>, line_positions |-> <<>>]

\* PieceTreeSearchCache::get_position: the most recent covering entry.
get_position(search, off) ==
    LET hits == {i \in 1 .. Len(search.positions) :
                    /\ search.positions[i].node_start_offset <= off
                    /\ search.positions[i].node_start_offset
                         + search.positions[i].node.piece.len >= off}
    IN  IF hits = {} THEN None
        ELSE Some(search.positions[CHOOSE i \in hits : \A j \in hits : j <= i])

\* PieceTreeSearchCache::is_limit
is_limit(search) == Len(search.positions) + Len(search.line_positions) >= search.limit

\* PieceTreeSearchCache::set_position without the is_limit guard.
set_position_unguarded(search, position) ==
    IF search.positions = <<>> THEN None
    ELSE Some([search EXCEPT !.positions = Append(Tail(@), position)])

\* PieceTreeSearchCache::set_position; None models the panic of
\* Vec::remove(0) on an empty vector.
set_position(search, position) ==
    IF is_limit(search)
    THEN IF search.positions = <<>> THEN None
         ELSE Some([search EXCEPT !.positions = Append(Tail(@), position)])
    ELSE Some([search EXCEPT !.positions = Append(@, position)])

NodeLinePosition(node, node_start_offset, node_start_line_number) ==
    [node |-> node, node_start_offset |-> node_start_offset,
     node_start_line_number |-> node_start_line_number]

\* PieceTreeSearchCache::set_line_position; None models the panic of
\* Vec::remove(0) on an empty vector.
set_line_position(search, line_position) ==
    IF is_limit(search)
    THEN IF search.line_positions = <<>> THEN None
         ELSE Some([search EXCEPT !.line_positions = Append(Tail(@), line_position)])
    ELSE Some([search EXCEPT !.line_positions = Append(@, line_position)])

\* PieceTreeSearchCache::validate testing the recorded offset only.
validate_by_offset(search, off) ==
    LET keep(p) == ~(p.node_start_offset >= off)
    IN  [search EXCEPT !.positions = SelectSeq(@, keep),
                        !.line_positions = SelectSeq(@, keep)]

\* PieceTreeSearchCache::validate
validate(search, off) ==
    LET keep(p) == ~(p.node.parent_key = None \/ p.node_start_offset >= off)
    IN  [search EXCEPT !.positions = SelectSeq(@, keep),
                        !.line_positions = SelectSeq(@, keep)]

\* #[derive(Default)] for TextBufferCache
TextBufferCacheDefault ==
    [last_change |-> BufferCursor(0, 0), search |-> PieceTreeSearchCacheDefault,
     line_count |-> 0, len |-> 0]

\* -------------------------------------------------------------- RBTree
\* RBTree::insert: the new node goes after every node whose key is <= its key.
TreeInsert(tree, node) ==
    LET before == SelectSeq(tree, LAMBDA n : total_size(n) <= total_size(node))
        after == SelectSeq(tree, LAMBDA n : total_size(n) > total_size(node))
    IN  before \o <<node>> \o after

\* RBTree::find / find_mut: a cursor (1-based position, 0 is the null cursor)
\* on a node with the given key.
TreeFind(tree, key) ==
    IF \E i \in 1 .. Len(tree) : total_size(tree[i]) = key
    THEN CHOOSE i \in 1 .. Len(tree) :
            /\ total_size(tree[i]) = key
            /\ \A j \in 1 .. Len(tree) : total_size(tree[j]) = key => i <= j
    ELSE 0

\* CursorMut::remove
TreeRemove(tree, c) == SubSeq(tree, 1, c - 1) \o SubSeq(tree, c + 1, Len(tree))

\* ------------------------------------------------------------ TextBuffer
Ok(self) == [self |-> self, status |-> "ok"]
Panic(self) == [self |-> self, status |-> "panic"]
Hang(self) == [self |-> self, status |-> "hang"]

\* #[derive(Default)] for TextBuffer
TextBufferDefault ==
    [tree |-> <<>>, info |-> TextBufferInfoDefault, original |-> BufferDefault,
     changed |-> <<>>, cache |-> TextBufferCacheDefault]

\* TextBuffer::new
text_buffer_of(info, original) ==
    [tree |-> TreeInsert(<<>>, NodeFromBuffer(original)),
     info |-> info,
     original |-> original,
     changed |-> <<BufferDefault>>,
     cache |-> TextBufferCacheDefault]

text_buffer_with_meta(original, meta) ==
    text_buffer_of(meta.info, Buffer(original, meta.line_starts))

TextBufferNew(original, default_eol) ==
    text_buffer_with_meta(original, new_with_meta(original, default_eol))

\* TextBuffer::get_buffer (a piece's buffer_index is always None or in range)
get_buffer(self, buffer_index) ==
    IF IsSome(buffer_index) THEN self.changed[Unwrap(buffer_index) + 1] ELSE self.original

\* The loop of get_node_content: every iteration builds a fresh enumerate()
\* over the same grapheme iterator, so the index it yields is always 0.
RECURSIVE ContentLoop(_, _, _, _)
ContentLoop(gs, start_offset, end_offset, text) ==
    IF gs = <<>> THEN text
    ELSE LET i == 0
         IN  ContentLoop(Tail(gs), start_offset, end_offset,
                         IF start_offset <= i /\ i <= end_offset THEN text \o gs[1] ELSE text)

\* get_node_content, lines 317-329
node_content(buffer, piece) ==
    ContentLoop(Graphemes(buffer.value), offset(buffer, piece.start),
                offset(buffer, piece.end), <<>>)

\* The same with the piece's start and end exchanged.
node_content_found_exchanged(self, c) ==
    IF c = 0 THEN <<>>
    ELSE node_content(get_buffer(self, self.tree[c].piece.buffer_index),
                      [self.tree[c].piece EXCEPT !.start = self.tree[c].piece.end,
                                                 !.end = self.tree[c].piece.start])

node_content_found(self, c) ==
    IF c = 0 THEN <<>>
    ELSE node_content(get_buffer(self, self.tree[c].piece.buffer_index), self.tree[c].piece)

\* TextBuffer::get_node_content
get_node_content(self, node) == node_content_found(self, TreeFind(self.tree, total_size(node)))

\* TextBuffer::to_string
RECURSIVE ToStringFrom(_, _, _)
ToStringFrom(self, i, text) ==
    IF i > Len(self.tree) THEN text
    ELSE ToStringFrom(self, i + 1, text \o get_node_content(self, self.tree[i]))

to_string(self) == ToStringFrom(self, 1, <<>>)

\* The tree walk with `node.total_size() > offset` as the test of line 169.
RECURSIVE Walk_exclusive(_, _, _, _)
Walk_exclusive(tree, c, off, node_start_offset) ==
    IF c = 0 \/ c > Len(tree) THEN None
    ELSE LET node == tree[c]
         IN  IF node.left_size > off
             THEN Walk_exclusive(tree, c - 1, off, node_start_offset)
             ELSE IF total_size(node) > off
             THEN Some(NodePosition(node, off - node.left_size,
                                    node_start_offset + node.left_size))
             ELSE Walk_exclusive(tree, c + 1, off - total_size(node),
                                 node_start_offset + total_size(node))

\* The tree walk of get_node_position from cursor c; None when the cursor
\* becomes null before a node is found.
RECURSIVE Walk(_, _, _, _)
Walk(tree, c, off, node_start_offset) ==
    IF c = 0 \/ c > Len(tree) THEN None
    ELSE LET node == tree[c]
         IN  IF node.left_size > off
             THEN Walk(tree, c - 1, off, node_start_offset)
             ELSE IF total_size(node) >= off
             THEN Some(NodePosition(node, off - node.left_size,
                                    node_start_offset + node.left_size))
             ELSE Walk(tree, c + 1, off - total_size(node),
                       node_start_offset + total_size(node))

\* get_node_position, lines 174-183: record the walk's result in the search
\* cache and return it; res.expect(..) panics when the walk found nothing.
node_position_recorded(self, res, set) ==
    IF ~IsSome(set) THEN [self |-> self, status |-> "panic", position |-> None]
    ELSE [self |-> [self EXCEPT !.cache.search = Unwrap(set)],
          status |-> "ok", position |-> res]

node_position_walked(self, res, search_enabled) ==
    IF ~IsSome(res) THEN [self |-> self, status |-> "panic", position |-> None]
    ELSE IF ~search_enabled THEN [self |-> self, status |-> "ok", position |-> res]
    ELSE node_position_recorded(self, res, set_position(self.cache.search, Unwrap(res)))

\* TextBuffer::get_node_position -> [self, status, position].  The entry the
\* search cache returns is built and dropped (lines 151-158); the walk always
\* runs.  With search_enabled = FALSE the search cache is neither consulted
\* nor written.
get_node_position(self, off, search_enabled) ==
    LET cache == IF search_enabled THEN get_position(self.cache.search, off) ELSE None
        dropped == IF IsSome(cache)
                   THEN Some(NodePosition(Unwrap(cache).node, Unwrap(cache).node_start_offset,
                                          off - Unwrap(cache).node_start_offset))
                   ELSE None
    IN  node_position_walked(self, Walk(self.tree, IF self.tree = <<>> THEN 0 ELSE 1, off, 0),
                             search_enabled)

\* update_tree_metadata applying the deltas to the node itself, whatever its
\* parent_key.
update_tree_metadata_self(self, node, delta, line_feed_count_delta) ==
    Ok([self EXCEPT !.tree = [k \in 1 .. Len(@) |->
                                [@[k] EXCEPT !.left_size = @ + delta,
                                             !.left_line_feed_count = @ + line_feed_count_delta]]])

\* TextBuffer::update_tree_metadata: the loop condition never changes, so
\* the call returns at once when parent_key is None and never otherwise.
update_tree_metadata(self, node, delta, line_feed_count_delta) ==
    IF node.parent_key = None THEN Ok(self) ELSE Hang(self)

\* TextBuffer::compute_buffer_metadata
RECURSIVE MetadataSum(_, _, _, _)
MetadataSum(tree, i, line_feed_count, grapheme_len) ==
    IF i > Len(tree) THEN [line_feed_count |-> line_feed_count, grapheme_len |-> grapheme_len]
    ELSE MetadataSum(tree, i + 1,
                     line_feed_count + tree[i].left_line_feed_count + tree[i].piece.line_feed_count,
                     grapheme_len + tree[i].left_size + tree[i].piece.len)

metadata_stored(self, sum, search_enabled) ==
    [self EXCEPT !.cache.line_count = sum.line_feed_count,
                 !.cache.len = sum.grapheme_len,
                 !.cache.search = IF search_enabled THEN validate(@, sum.grapheme_len) ELSE @]

compute_buffer_metadata(self, search_enabled) ==
    metadata_stored(self, MetadataSum(self.tree, 1, 0, 0), search_enabled)

\* adjust_cr_from_next -> [self, status, value, result]; the steps after
\* the node was found (lines 198-227), the later ones first.
adjust_result(upd, pushed) ==
    [self |-> upd.self, status |-> upd.status, value |-> pushed, result |-> TRUE]

adjust_replaced(self, pushed, c, replaced) ==
    adjust_result(update_tree_metadata([self EXCEPT !.tree[c] = replaced], replaced,
                                       0 - 1, 0 - 1),
                  pushed)

adjust_shrunk(self, pushed, c, found, start, lfc) ==
    IF ~IsSome(lfc)
    THEN [self |-> self, status |-> "panic", value |-> pushed, result |-> FALSE]
    ELSE adjust_replaced(self, pushed, c,
                         [found EXCEPT !.piece =
                            Piece(found.piece.buffer_index, start, found.piece.end,
                                  Unwrap(lfc), found.piece.len - 1)])

adjust_lf(self, pushed, buffer, c, found) ==
    IF found.piece.len = 1
    THEN [self |-> [self EXCEPT !.tree = TreeRemove(@, c)],
          status |-> "ok", value |-> pushed, result |-> TRUE]
    ELSE adjust_shrunk(self, pushed, c, found,
                       BufferCursor(found.piece.start.line + 1, 0),
                       get_line_feed_count(buffer, BufferCursor(found.piece.start.line + 1, 0),
                                           found.piece.end))

adjust_found(self, value, buffer, c) ==
    IF c = 0 THEN [self |-> self, status |-> "ok", value |-> value, result |-> FALSE]
    ELSE IF ~start_with_lf(self.tree[c], buffer)
    THEN [self |-> self, status |-> "ok", value |-> value, result |-> FALSE]
    ELSE adjust_lf(self, value \o LF, buffer, c, self.tree[c])

\* TextBuffer::adjust_cr_from_next
adjust_cr_from_next(self, node, value) ==
    IF ~(should_check_crlf(self.info) /\ end_with_cr_from_string(value))
    THEN [self |-> self, status |-> "ok", value |-> value, result |-> FALSE]
    ELSE adjust_found(self, value, get_buffer(self, node.piece.buffer_index),
                      TreeFind(self.tree, total_size(node)))

\* TextBuffer::end_with_cr
end_with_cr_found(self, node, c) ==
    IF c = 0 \/ node.piece.line_feed_count = 0 THEN FALSE
    ELSE IF self.tree[c].piece.line_feed_count < 1 THEN FALSE
    ELSE end_with_cr_from_string(get_buffer(self, self.tree[c].piece.buffer_index).value)

end_with_cr(self, node) == end_with_cr_found(self, node, TreeFind(self.tree, total_size(node)))

\* TextBuffer::get_buffer_mut followed by a write of line_starts
set_buffer_line_starts(self, buffer_index, line_starts) ==
    IF IsSome(buffer_index)
    THEN [self EXCEPT !.changed[Unwrap(buffer_index) + 1].line_starts = line_starts]
    ELSE [self EXCEPT !.original.line_starts = line_starts]

\* append, lines 136-147: write the buffer back, move the last-edit cursor;
\* the grown piece goes into the caller's clone of the node only.
append_written(self, buffer, node, new_end, new_line_feed_count, value_len) ==
    IF ~IsSome(new_line_feed_count) THEN Panic(self)
    ELSE IF ~IsSome(node.piece.buffer_index) THEN Panic(self)
    ELSE update_tree_metadata(
           [self EXCEPT !.changed[Unwrap(node.piece.buffer_index) + 1] = buffer,
                        !.cache.last_change = new_end],
           [node EXCEPT !.piece =
              Piece(node.piece.buffer_index, node.piece.start, new_end,
                    Unwrap(new_line_feed_count), node.piece.len + value_len)],
           value_len, Unwrap(new_line_feed_count) - node.piece.line_feed_count)

\* append, lines 131-134
append_counted(self, buffer, node, value, new_end) ==
    append_written(self, buffer, node, new_end,
                   get_line_feed_count(buffer, node.piece.start, new_end),
                   grapheme_count(value))

\* append, lines 124-130: the new end is read off the ORIGINAL buffer.
append_at_end(self, buffer, node, value, end_index, at_end) ==
    IF ~IsSome(at_end) THEN Panic(self)
    ELSE append_counted(self, buffer, node, value,
                        BufferCursor(end_index,
                                     grapheme_count(self.original.value) - Unwrap(at_end)))

append_end(self, buffer, node, value) ==
    append_at_end(self, buffer, node, value, Len(self.original.line_starts) - 1,
                  VecGet(self.original.line_starts, Len(self.original.line_starts) - 1))

\* append, lines 117-122: both the clone of the piece's buffer and the
\* original buffer get the new line starts.
append_extended(self, node, value, slice) ==
    append_end([self EXCEPT !.original.line_starts = @ \o slice],
               [get_buffer(self, node.piece.buffer_index) EXCEPT !.line_starts = @ \o slice],
               node, value)

\* append, lines 116-118: remove(0), then the slice [1..] of what is left.
append_tail(self, node, value, line_starts) ==
    IF Len(Tail(line_starts)) < 1 THEN Panic(self)
    ELSE append_extended(self, node, value, SubSeq(Tail(line_starts), 2, Len(line_starts) - 1))

\* append, lines 103-115: the hit_crlf fix-up of the buffer's last line start.
append_popped(self, buffer_index, ls, start_offset) ==
    IF Len(ls) < 2 THEN Panic(self)
    ELSE Ok([set_buffer_line_starts(self, buffer_index, SubSeq(ls, 1, Len(ls) - 1))
               EXCEPT !.cache.last_change =
                        BufferCursor(self.cache.last_change.line - 1,
                                     start_offset - ls[Len(ls) - 1])])

append_hit_crlf(self, node, value, start_offset) ==
    IF ~(/\ should_check_crlf(self.info)
         /\ start_with_lf_from_string(value)
         /\ end_with_cr(self, node))
    THEN Ok(self)
    ELSE append_popped(self, node.piece.buffer_index,
                       get_buffer(self, node.piece.buffer_index).line_starts, start_offset)

\* append, lines 97-101
shifted_line_starts(line_starts, start_offset) ==
    [k \in 1 .. Len(line_starts) |-> line_starts[k] + start_offset]

append_fixed(hit, node, value, start_offset) ==
    IF hit.status # "ok" THEN hit
    ELSE append_tail(hit.self, node, value,
                     shifted_line_starts(get_line_starts(value), start_offset))

append_adjusted(self, node, value, start_offset) ==
    append_fixed(append_hit_crlf(self, node, value, start_offset), node, value, start_offset)

append_after_adjust(adj, node) ==
    IF adj.status # "ok" THEN [self |-> adj.self, status |-> adj.status]
    ELSE append_adjusted(adj.self, node,
                         IF adj.result THEN adj.value \o LF ELSE adj.value,
                         total_size(node))

\* TextBuffer::append; `node` is the caller's clone, the tree keeps its own node.
append(self, node, value) == append_after_adjust(adjust_cr_from_next(self, node, value), node)

\* insert, lines 57-64: the first insert.
insert_first(self, buffer) ==
    Ok([self EXCEPT
          !.tree = TreeInsert(@, [NodeFromBuffer(buffer) EXCEPT
                                    !.piece.buffer_index = Some(Len(self.changed))]),
          !.changed = Append(@, buffer)])

\* insert, line 88, reached unless append panicked.
insert_appended(app, search_enabled) ==
    IF app.status # "ok" THEN app
    ELSE Ok(compute_buffer_metadata(app.self, search_enabled))

\* insert, lines 71-74: the condition of the "modified node" branch.
modified_node(self, position, off) ==
    /\ IsSome(position.node.piece.buffer_index)
    /\ position.node.piece.end.line = self.cache.last_change.line
    /\ position.node.piece.end.column = self.cache.last_change.column
    /\ position.node_start_offset + position.node.piece.len = off

\* insert with the branches of lines 78-86 adding a node for the text, as
\* the calls commented out there would.
insert_at_adding(self, position, off, value, search_enabled) ==
    IF modified_node(self, position, off)
    THEN insert_appended(append(self, position.node, value), search_enabled)
    ELSE Ok(compute_buffer_metadata(
              [self EXCEPT
                 !.tree = TreeInsert(@, [NodeFromBuffer(BufferFrom(value)) EXCEPT
                                           !.piece.buffer_index = Some(Len(self.changed))]),
                 !.changed = Append(@, BufferFrom(value))],
              search_enabled))

\* insert, lines 71-88: only the "modified node" branch has a body.
insert_at(self, position, off, value, search_enabled) ==
    IF modified_node(self, position, off)
    THEN insert_appended(append(self, position.node, value), search_enabled)
    ELSE Ok(compute_buffer_metadata(self, search_enabled))

insert_located(pos, off, value, search_enabled) ==
    IF pos.status # "ok" THEN [self |-> pos.self, status |-> pos.status]
    ELSE insert_at(pos.self, Unwrap(pos.position), off, value, search_enabled)

\* TextBuffer::insert
insert(self, off, value, search_enabled) ==
    IF self.tree = <<>>
    THEN insert_first(self, BufferFrom(value))
    ELSE insert_located(get_node_position(self, off, search_enabled), off, value,
                        search_enabled)

\* TextBuffer::delete is todo!("delete"): it panics before touching anything.
delete(self, off, count) == Panic(self)

\* ============================================================ state machine
VARIABLES
    ctor,       \* how the buffer was constructed: default() or new(payload, default_eol)
    tb,         \* the TextBuffer
    status,     \* "ok", or "panic"/"hang" once a call did not return
    nc,         \* the same calls applied to a TextBuffer whose search cache is disabled
    nc_status,
    last,       \* the last call and its arguments
    pre,        \* tb as it was before the last call
    text,       \* Some(result) of the last to_string() call
    ops         \* number of calls made

vars == <<ctor, tb, status, nc, nc_status, last, pre, text, ops>>

Call(kind, off, value, count) ==
    [kind |-> kind, offset |-> off, value |-> value, count |-> count]

Init ==
    /\ ctor \in {[kind |-> "default", payload |-> <<>>, default_eol |-> "LF"]}
          \cup [kind : {"new"}, payload : Payloads, default_eol : {"LF", "CRLF"}]
    /\ tb = IF ctor.kind = "default" THEN TextBufferDefault
            ELSE TextBufferNew(ctor.payload, ctor.default_eol)
    /\ nc = tb
    /\ status = "ok"
    /\ nc_status = "ok"
    /\ last = Call("init", 0, <<>>, 0)
    /\ pre = tb
    /\ text = None
    /\ ops = 0

Running == status = "ok" /\ nc_status = "ok" /\ ops < MaxOps

\* The state after a call: r is its result on tb, rn its result on nc.
Called(call, r, rn) ==
    /\ tb' = r.self
    /\ status' = r.status
    /\ nc' = rn.self
    /\ nc_status' = rn.status
    /\ last' = call
    /\ pre' = tb
    /\ ops' = ops + 1
    /\ UNCHANGED <<ctor, text>>

Insert ==
    /\ Running
    /\ \E off \in Offsets, value \in Values :
          Called(Call("insert", off, value, 0),
                 insert(tb, off, value, TRUE), insert(nc, off, value, FALSE))

Delete ==
    /\ Running
    /\ \E off \in 0 .. MaxOffset, count \in Counts :
          Called(Call("delete", off, <<>>, count), delete(tb, off, count), delete(nc, off, count))

ToString ==
    /\ Running
    /\ text' = Some(to_string(tb))
    /\ last' = Call("to_string", 0, <<>>, 0)
    /\ pre' = tb
    /\ ops' = ops + 1
    /\ UNCHANGED <<ctor, tb, status, nc, nc_status>>

Next == Insert \/ Delete \/ ToString

Spec == Init /\ [][Next]_vars

\* ------------------------------------------------ in-range inserts only
\* insert called with an offset within the current document only:
\* 0 <= offset <= number of characters of to_string().
InsertInRange ==
    /\ Running
    /\ \E off \in 0 .. MaxOffset, value \in Values :
          /\ off <= grapheme_count(to_string(tb))
          /\ Called(Call("insert", off, value, 0),
                    insert(tb, off, value, TRUE), insert(nc, off, value, FALSE))

InRangeNext == InsertInRange

InRangeSpec == Init /\ [][InRangeNext]_vars

\* ------------------------------------------- the search cache on its own
\* The methods of PieceTreeSearchCache called in any order on the search
\* cache of a default TextBuffer.  The nodes recorded are nodes as
\* Node::from builds them (parent_key None).
CacheNodes == {NodeFromBuffer(BufferFrom(v)) : v \in Payloads}

\* The state after a call on the search cache: set is Some(cache after the
\* call), or None when the call panicked.
CacheCalled(call, set) ==
    /\ tb' = IF IsSome(set) THEN [tb EXCEPT !.cache.search = Unwrap(set)] ELSE tb
    /\ status' = IF IsSome(set) THEN "ok" ELSE "panic"
    /\ last' = call
    /\ pre' = tb
    /\ UNCHANGED <<ctor, nc, nc_status, text, ops>>

SetPosition ==
    /\ status = "ok"
    /\ \E node \in CacheNodes, off \in 0 .. MaxOffset :
          CacheCalled(Call("set_position", off, <<>>, 0),
                      set_position(tb.cache.search, NodePosition(node, 0, off)))

SetLinePosition ==
    /\ status = "ok"
    /\ \E node \in CacheNodes, off \in 0 .. MaxOffset, line \in Counts :
          CacheCalled(Call("set_line_position", off, <<>>, line),
                      set_line_position(tb.cache.search, NodeLinePosition(node, off, line)))

Validate ==
    /\ status = "ok"
    /\ \E off \in Offsets :
          CacheCalled(Call("validate", off, <<>>, 0), Some(validate(tb.cache.search, off)))

SearchInit == Init /\ ctor.kind = "default"

SearchNext == SetPosition \/ SetLinePosition \/ Validate

SearchSpec == SearchInit /\ [][SearchNext]_vars

\* ================================================================ properties
\* Reference notions of the specification, independent of the code.
Flatten(gs) == push_all(<<>>, gs)
Prefix(S, o) == Flatten(SubSeq(Graphemes(S), 1, o))
Suffix(S, o) == Flatten(SubSeq(Graphemes(S), o + 1, Len(Graphemes(S))))
\* Line terminators of S: a CR LF pair is one, a bare CR or a bare LF is one.
Terminators(S) ==
    Cardinality({k \in 1 .. Len(S) :
                    \/ S[k] = "CR"
                    \/ S[k] = "LF" /\ (k = 1 \/ S[k - 1] # "CR")})
HasCRLF(S) == \E k \in 1 .. Len(S) - 1 : S[k] = "CR" /\ S[k + 1] = "LF"
InRange(o, S) == 0 <= o /\ o <= grapheme_count(S)

\* C1: right after TextBuffer::new(S, _), to_string() returns S exactly.
C1_RoundTrip ==
    (ctor.kind = "new" /\ last.kind = "init") => to_string(tb) = ctor.payload

C1_Witness ==
    /\ ctor.kind = "new" /\ last.kind = "init"
    /\ Terminators(ctor.payload) > 0
    /\ to_string(tb) = ctor.payload

\* C2: after insert(o, T) with 0 <= o <= length(S) and T non-empty, the call
\* has returned and to_string() is prefix(S, o) + T + suffix(S, o).
C2_InsertReadConsistency ==
    (/\ last.kind = "insert"
     /\ InRange(last.offset, to_string(pre))
     /\ last.value # <<>>)
    => /\ status = "ok"
       /\ to_string(tb) = Prefix(to_string(pre), last.offset) \o last.value
                            \o Suffix(to_string(pre), last.offset)

\* C3: insert(0, T) with T non-empty on a default-constructed TextBuffer
\* creates exactly one node and makes to_string() return T.
C3_FirstInsert ==
    (/\ last.kind = "insert"
     /\ pre = TextBufferDefault
     /\ last.offset = 0
     /\ last.value # <<>>)
    => /\ status = "ok"
       /\ Len(tb.tree) = 1
       /\ to_string(tb) = last.value

C3_Witness ==
    /\ last.kind = "insert"
    /\ pre = TextBufferDefault
    /\ last.offset = 0
    /\ HasCRLF(last.value)
    /\ Len(tb.tree) = 1
    /\ to_string(tb) = last.value

\* C4: after an in-range insert that returned, cache.line_count is the number of line
\* terminators of to_string() plus one (CR LF counted once).
C4_LineCount ==
    (last.kind = "insert" /\ status = "ok" /\ InRange(last.offset, to_string(pre)))
    => tb.cache.line_count = Terminators(to_string(tb)) + 1

\* C5: delete(o, count) with o + count <= length(S) returns, and to_string()
\* is S without the slice [o, o + count).
C5_DeleteReadConsistency ==
    (/\ last.kind = "delete"
     /\ last.offset + last.count <= grapheme_count(to_string(pre)))
    => /\ status = "ok"
       /\ to_string(tb) = Prefix(to_string(pre), last.offset)
                            \o Suffix(to_string(pre), last.offset + last.count)

\* C6: no piece ends with CR while the next piece starts with LF, and a
\* CR LF pair lying inside a piece is counted as one line terminator.
OnlyCRLFTerminators(S) ==
    /\ \A k \in 1 .. Len(S) : S[k] = "CR" => (k < Len(S) /\ S[k + 1] = "LF")
    /\ \A k \in 1 .. Len(S) : S[k] = "LF" => (k > 1 /\ S[k - 1] = "CR")

C6_CRLFNonSplitting ==
    /\ \A i \in 1 .. Len(tb.tree) - 1 :
          LET a == get_node_content(tb, tb.tree[i])
              b == get_node_content(tb, tb.tree[i + 1])
          IN  ~(a # <<>> /\ b # <<>> /\ a[Len(a)] = "CR" /\ b[1] = "LF")
    /\ \A i \in 1 .. Len(tb.tree) :
          LET content == get_node_content(tb, tb.tree[i])
          IN  OnlyCRLFTerminators(content)
              => tb.tree[i].piece.line_feed_count = Terminators(content)

\* C7: an insert of a non-empty text whose offset is outside [0, length]
\* ends in an error (the panic is taken as that error) and
\* leaves the whole TextBuffer as it was.
C7_NoPartialMutation ==
    (last.kind = "insert" /\ last.value # <<>> /\ ~InRange(last.offset, to_string(pre)))
    => status = "panic" /\ tb = pre

\* C8: insert(offset, "") at an offset in [0, length] leaves the nodes, the
\* buffers and the text unchanged.
C8_EmptyInsertNoOp ==
    (last.kind = "insert" /\ last.value = <<>> /\ InRange(last.offset, to_string(pre)))
    => /\ tb.tree = pre.tree
       /\ tb.original = pre.original
       /\ tb.changed = pre.changed
       /\ to_string(tb) = to_string(pre)

\* C9: the run with the search cache and the run without it agree on the
\* outcome of every call, on the tree and the buffers, on to_string(), and
\* on the result of an offset lookup for every offset.
C9_SearchCacheTransparency ==
    /\ status = nc_status
    /\ tb.tree = nc.tree
    /\ tb.original = nc.original
    /\ tb.changed = nc.changed
    /\ to_string(tb) = to_string(nc)
    /\ \A off \in Offsets :
          LET a == get_node_position(tb, off, TRUE)
              b == get_node_position(nc, off, FALSE)
          IN  a.status = b.status /\ a.position = b.position

\* An insert whose lookup recorded an entry in the search cache of the
\* first run only, after which the two runs still agree.
C9_Witness ==
    /\ last.kind = "insert"
    /\ Len(tb.cache.search.positions) = 1
    /\ nc.cache.search.positions = <<>>
    /\ IsSome(get_position(tb.cache.search, last.offset))
    /\ to_string(tb) = to_string(nc)
    /\ status = nc_status

\* C10: a payload with a line terminator gets the same eol under both
\* defaults; a payload without one gets the supplied default.
C10_DefaultEolOnlyWithoutTerminators ==
    ctor.kind = "new"
    => IF Terminators(ctor.payload) > 0
       THEN new_with_meta(ctor.payload, "LF").info.eol
              = new_with_meta(ctor.payload, "CRLF").info.eol
       ELSE tb.info.eol = ctor.default_eol

\* The last call was an insert that took the "modified node" branch (the
\* fast-path append) on the node found at its offset.
FastPath ==
    /\ last.kind = "insert"
    /\ pre.tree # <<>>
    /\ LET pos == get_node_position(pre, last.offset, TRUE)
       IN  pos.status = "ok" /\ modified_node(pos.self, Unwrap(pos.position), last.offset)

\* The nodes of the left subtree of the i-th node (in iteration order) of
\* the tree.  A tree of one node has no subtrees; the shape of a larger
\* tree is not recorded, every earlier node is then taken to lie below.
LeftSubtree(tree, i) == IF Len(tree) <= 1 THEN <<>> ELSE SubSeq(tree, 1, i - 1)

RECURSIVE SumLen(_)
SumLen(nodes) == IF nodes = <<>> THEN 0 ELSE nodes[1].piece.len + SumLen(Tail(nodes))

RECURSIVE SumLineFeeds(_)
SumLineFeeds(nodes) ==
    IF nodes = <<>> THEN 0 ELSE nodes[1].piece.line_feed_count + SumLineFeeds(Tail(nodes))

\* C11: in every state, every node's left_size is the total piece length of
\* the nodes of its left subtree and its left_line_feed_count their total
\* line feed count (the tree never holds more than one node).
C11_AggregateIntegrity ==
    /\ Len(tb.tree) <= 1
    /\ \A i \in 1 .. Len(tb.tree) :
          /\ tb.tree[i].left_size = SumLen(LeftSubtree(tb.tree, i))
          /\ tb.tree[i].left_line_feed_count = SumLineFeeds(LeftSubtree(tb.tree, i))

\* A fast-path append that returned, after which the aggregates are exact.
C11_Witness ==
    /\ FastPath
    /\ status = "ok"
    /\ tb.cache.last_change # pre.cache.last_change
    /\ \A i \in 1 .. Len(tb.tree) :
          /\ tb.tree[i].left_size = SumLen(LeftSubtree(tb.tree, i))
          /\ tb.tree[i].left_line_feed_count = SumLineFeeds(LeftSubtree(tb.tree, i))

\* The clusters of the half-open range [start, end) of a piece, resolved in
\* the buffer the piece references.
PieceRange(self, piece) ==
    SubSeq(Graphemes(get_buffer(self, piece.buffer_index).value),
           offset(get_buffer(self, piece.buffer_index), piece.start) + 1,
           offset(get_buffer(self, piece.buffer_index), piece.end))

\* C12: in every state, the range [start, end) of every piece of the tree
\* holds exactly piece.len characters and exactly piece.line_feed_count line
\* terminators of the buffer the piece references.
C12_PieceCacheInvariant ==
    \A i \in 1 .. Len(tb.tree) :
       /\ offset(get_buffer(tb, tb.tree[i].piece.buffer_index), tb.tree[i].piece.end)
            - offset(get_buffer(tb, tb.tree[i].piece.buffer_index), tb.tree[i].piece.start)
            = tb.tree[i].piece.len
       /\ Len(PieceRange(tb, tb.tree[i].piece)) = tb.tree[i].piece.len
       /\ Terminators(Flatten(PieceRange(tb, tb.tree[i].piece)))
            = tb.tree[i].piece.line_feed_count

\* C13: in every state, no node of the tree holds a piece of length 0.
C13_NoEmptyPieces == \A i \in 1 .. Len(tb.tree) : tb.tree[i].piece.len > 0

\* C14: the original buffer, value and line_starts, is in every state what
\* it was right after construction.
C14_OriginalBufferImmutable ==
    tb.original = (IF ctor.kind = "default" THEN TextBufferDefault
                   ELSE TextBufferNew(ctor.payload, ctor.default_eol)).original

\* The node the last insert located in the tree before the call.
LocatedNode == Unwrap(get_node_position(pre, last.offset, TRUE).position).node

\* C15: an insert(offset, T) of a non-empty T that takes the fast path returns,
\* appends T to the content of the changed buffer of the located piece, grows
\* that piece in the tree in place (same start, len and line_feed_count
\* increased by the characters and the terminators of T), does not add a
\* node, and makes to_string() show T at offset.
C15_FastPathAppend ==
    (FastPath /\ last.value # <<>>)
    => /\ status = "ok"
       /\ tb.changed[Unwrap(LocatedNode.piece.buffer_index) + 1].value
            = pre.changed[Unwrap(LocatedNode.piece.buffer_index) + 1].value \o last.value
       /\ Len(tb.tree) <= Len(pre.tree)
       /\ \E i \in 1 .. Len(tb.tree) :
             /\ tb.tree[i].piece.buffer_index = LocatedNode.piece.buffer_index
             /\ tb.tree[i].piece.start = LocatedNode.piece.start
             /\ tb.tree[i].piece.len = LocatedNode.piece.len + grapheme_count(last.value)
             /\ tb.tree[i].piece.line_feed_count
                  = LocatedNode.piece.line_feed_count + Terminators(last.value)
       /\ to_string(tb) = Prefix(to_string(pre), last.offset) \o last.value
                            \o Suffix(to_string(pre), last.offset)

\* position is a node of the tree together with the total piece length of
\* the nodes before it and the remainder of off.
LocatesIn(tree, off, position) ==
    \E i \in 1 .. Len(tree) :
       /\ position.node = tree[i]
       /\ position.node_start_offset = SumLen(SubSeq(tree, 1, i - 1))
       /\ position.remainder = off - position.node_start_offset
       /\ 0 <= position.remainder
       /\ position.remainder <= tree[i].piece.len

\* C16: in every state and for every offset, get_node_position returns
\* exactly when the tree is non-empty and 0 <= offset <= total length (a
\* negative offset lies outside every document and fails as well), and what
\* it returns is a node of the tree, the total length of the pieces before
\* it and the remainder offset - node_start_offset within [0, piece.len].
C16_LocateByOffset ==
    \A off \in Offsets :
       IF tb.tree # <<>> /\ 0 <= off /\ off <= SumLen(tb.tree)
       THEN /\ get_node_position(tb, off, TRUE).status = "ok"
            /\ LocatesIn(tb.tree, off, Unwrap(get_node_position(tb, off, TRUE).position))
       ELSE get_node_position(tb, off, TRUE).status = "panic"

\* An insert whose lookup ran at the positive offset where its piece ends
\* and returned that piece, while the offset after it fails.
C16_Witness ==
    /\ last.kind = "insert"
    /\ pre.tree # <<>>
    /\ last.offset > 0
    /\ last.offset = SumLen(pre.tree)
    /\ status = "ok"
    /\ LocatesIn(pre.tree, last.offset, Unwrap(get_node_position(pre, last.offset, TRUE).position))
    /\ get_node_position(pre, last.offset + 1, TRUE).status = "panic"

\* The line starts of a text by the specification: 0, then the character
\* offset right after every line terminator (CR LF, bare CR, bare LF).
RECURSIVE LineStartsAfter(_, _)
LineStartsAfter(S, k) ==
    IF k > Len(S) THEN <<>>
    ELSE IF S[k] = "LF" \/ (S[k] = "CR" /\ ~(k < Len(S) /\ S[k + 1] = "LF"))
    THEN <<k>> \o LineStartsAfter(S, k + 1)
    ELSE LineStartsAfter(S, k + 1)

LineStartsOf(S) == <<0>> \o LineStartsAfter(S, 1)

\* C17: the line starts computed for the payload by new_with_meta (kept in
\* the original buffer) and for the text of a first insert by
\* get_line_starts (kept in the new changed buffer) are 0 followed by the
\* offset after every line terminator of the text.
C17_LineIndexResult ==
    /\ (ctor.kind = "new" /\ last.kind = "init")
       => tb.original.line_starts = LineStartsOf(ctor.payload)
    /\ (last.kind = "insert" /\ pre.tree = <<>>)
       => tb.changed[Len(tb.changed)].line_starts = LineStartsOf(last.value)

\* line_starts of a buffer starts with 0, is strictly increasing, stays
\* within the value and has one entry per line of the value.
LineIndexConsistent(buffer) ==
    /\ Len(buffer.line_starts) >= 1
    /\ buffer.line_starts[1] = 0
    /\ \A k \in 1 .. Len(buffer.line_starts) - 1 :
          buffer.line_starts[k] < buffer.line_starts[k + 1]
    /\ \A k \in 1 .. Len(buffer.line_starts) : buffer.line_starts[k] <= Len(buffer.value)
    /\ Len(buffer.line_starts) = Terminators(buffer.value) + 1

\* C18: in every state the original buffer and every changed buffer have
\* line_starts consistent with their value.
C18_BufferLineIndexInvariant ==
    /\ LineIndexConsistent(tb.original)
    /\ \A k \in 1 .. Len(tb.changed) : LineIndexConsistent(tb.changed[k])

\* C19: after an in-range insert that returned, cache.len is the number of
\* characters of to_string() and the sum of piece.len over the nodes of the tree.
C19_LengthCache ==
    (last.kind = "insert" /\ status = "ok" /\ InRange(last.offset, to_string(pre)))
    => /\ tb.cache.len = grapheme_count(to_string(tb))
       /\ tb.cache.len = SumLen(tb.tree)

\* C20: whatever the order of set_position, set_line_position and validate
\* calls, no call fails and the search cache never holds more entries
\* (positions plus line_positions) than its limit.
C20_SearchCacheBounded ==
    /\ status = "ok"
    /\ Len(tb.cache.search.positions) + Len(tb.cache.search.line_positions)
         <= tb.cache.search.limit

\* The entry of the search cache describes a node of the tree with the total
\* piece length of the nodes before it.
DescribesNode(tree, entry) ==
    \E i \in 1 .. Len(tree) :
       /\ entry.node = tree[i]
       /\ entry.node_start_offset = SumLen(SubSeq(tree, 1, i - 1))

\* C21: after an insert at offset X that returned, every entry left in the
\* search cache has a recorded node_start_offset below X and describes a
\* node that is in the tree, with its start offset and its piece.
C21_SearchCacheInvalidation ==
    (last.kind = "insert" /\ status = "ok")
    => /\ \A k \in 1 .. Len(tb.cache.search.positions) :
             /\ tb.cache.search.positions[k].node_start_offset < last.offset
             /\ DescribesNode(tb.tree, tb.cache.search.positions[k])
       /\ \A k \in 1 .. Len(tb.cache.search.line_positions) :
             /\ tb.cache.search.line_positions[k].node_start_offset < last.offset
             /\ DescribesNode(tb.tree, tb.cache.search.line_positions[k])

\* A fast-path append at the offset of its piece that returned and wrote the
\* piece's buffer: the lookup had recorded an entry at that offset, and the
\* search cache no longer holds it.
C21_Witness ==
    /\ FastPath
    /\ status = "ok"
    /\ tb.changed # pre.changed
    /\ Len(get_node_position(pre, last.offset, TRUE).self.cache.search.positions) = 1
    /\ get_node_position(pre, last.offset, TRUE).self.cache.search.positions[1].node_start_offset
         >= last.offset
    /\ tb.cache.search.positions = <<>>

\* C22: in a run of insert calls whose offsets all lie within the document
\* at the time of the call, every call returns.
C22_NoRuntimeFailure == status = "ok"

\* C23: in every state the tree holds at most one node.
C23_NodeCountBound == Len(tb.tree) <= 1

\* An in-range insert of a non-empty text into a tree that holds a node has
\* returned, and the tree still holds that one node.
C23_Witness ==
    /\ last.kind = "insert"
    /\ Len(pre.tree) = 1
    /\ last.value # <<>>
    /\ InRange(last.offset, to_string(pre))
    /\ status = "ok"
    /\ tb.tree = pre.tree

====
